---- MODULE Spec2Model ----
(***************************************************************************)
(* A model of sysinfo.py: the one-shot console report main() prints, as a  *)
(* state machine over the psutil provider's answers.                       *)
(*                                                                         *)
(* Text is a sequence of character codes ("sh" is <<115, 104>>), so that   *)
(* str.lower(), slicing and the ordering of strings are computed as Python *)
(* computes them.  A Python value that may be None is a sequence of length *)
(* at most one: <<>> is None and <<v>> is the value v.  cpu_percent is a   *)
(* whole number of percent; a resident size is a number of bytes.  Column  *)
(* padding and the widths of number formats are not part of the model: a   *)
(* printed line is the record of its fields after substitution and         *)
(* slicing.                                                                *)
(***************************************************************************)
EXTENDS Integers, Sequences, FiniteSets

VARIABLES
    world,    \* the provider's answers for this run (psutil)
    alive,    \* pids of the world's processes that still exist
    pc,       \* the statement main() is at
    exc,      \* "none", or the exception that ended the run
    enum,     \* handles of the process_iter() loop in progress
    idx,      \* position of that loop in enum
    primed,   \* handles whose cpu_percent(None) call has returned, this pass
    warmups,  \* completed psutil.cpu_percent(interval=0.5) waits, per function
    procs,    \* get_top_processes: procs
    top,      \* print_processes_summary: top
    rows,     \* print_process_details: rows, as sampled (lines 137-160)
    kept,     \* print_process_details: rows after lines 162-163
    out       \* standard output, one record per printed line

vars == <<world, alive, pc, exc, enum, idx, primed, warmups, procs, top, rows,
          kept, out>>

-----------------------------------------------------------------------------
(* Bounds of the model. *)

\* processes whose fields vary freely in a process table
MaxProcs == 2
\* logged-in sessions in a psutil.users() answer
MaxUsers == 2
\* services whose fields vary freely in a win_service_iter() answer
MaxSvcs == 2
\* disks in a disk_io_counters(perdisk=True) answer
MaxDisks == 2
\* processes that may exit during one run
MaxGone == 1
\* processes of the large process table (more than every limit main passes)
Crowd == 26
\* services of the large service list (more than the limit main passes)
SvcCrowd == 31

(* The limits main() passes. *)
SummaryLimit == 10
DetailsLimit == 25
ServicesLimit == 30

-----------------------------------------------------------------------------
(* Python values. *)

None == <<>>
\* what an f-string prints for None, and the placeholder for an absent value
NoneText == <<78, 111, 110, 101>>
Dash == <<45>>
Some(v) == <<v>>
Val(o) == o[1]

Min(a, b) == IF a <= b THEN a ELSE b

\* s[:n]
Take(s, n) == SubSeq(s, 1, Min(n, Len(s)))

\* `x or d` for a value x that is None or text
OrTextUnguarded(x, d) == IF x = None THEN NoneText ELSE Val(x)
OrText(x, d) == IF x = None \/ Val(x) = <<>> THEN d ELSE Val(x)

\* dict.get(key, default): the default only when the key is absent
Get(d, key, default) == IF key \in DOMAIN d THEN d[key] ELSE default

\* str(n) for n >= 0
RECURSIVE Digits(_)
Digits(n) == IF n < 10 THEN <<48 + n>> ELSE Digits(n \div 10) \o <<48 + (n % 10)>>

\* str.lower() on ASCII text
LowerChar(c) == IF c >= 65 /\ c <= 90 THEN c + 32 ELSE c
Lower(s) == [i \in 1..Len(s) |-> LowerChar(s[i])]

\* a < b for text (code point order, a proper prefix first)
RECURSIVE TextLess(_, _)
TextLess(a, b) ==
    IF b = <<>> THEN FALSE
    ELSE IF a = <<>> THEN TRUE
    ELSE IF a[1] # b[1] THEN a[1] < b[1]
    ELSE TextLess(Tail(a), Tail(b))

\* format_gib: f"{bytes_val / (2 ** 30):.2f} GiB", as a number of hundredths of
\* a GiB, rounded to nearest and a tie to the even digit (exact for the
\* multiples of 1024 the model uses)
FormatGib(bytes_val) ==
    LET whole == bytes_val \div 1073741824
        num   == ((bytes_val % 1073741824) \div 1024) * 100
        q     == num \div 1048576
        r     == num % 1048576
        up    == r > 524288 \/ (r = 524288 /\ q % 2 = 1)
    IN  whole * 100 + q + (IF up THEN 1 ELSE 0)

\* list.sort(key=...), which is stable: before[i][j] says that the key of
\* s[i] sorts strictly before that of s[j].  Row i lands after every row that
\* sorts before it and after every earlier row of equal key.
SortBy(s, before) ==
    LET n == Len(s)
        pos(i) == 1 + Cardinality({j \in 1..n : j # i /\
                        (before[j][i] \/ (~before[i][j] /\ j < i))})
    IN  [p \in 1..n |-> s[CHOOSE i \in 1..n : pos(i) = p]]

-----------------------------------------------------------------------------
(* The provider (psutil): the answers one run may get. *)

Sh == <<115, 104>>
Root == <<114, 111, 111, 116>>
Running == <<114, 117, 110, 110, 105, 110, 103>>
Host == <<112, 99>>
Tty == <<116, 116, 121>>
Alpha == <<65, 108, 112, 104, 97>>
AlphaLow == <<97, 108, 112, 104, 97>>
Beta == <<98, 101, 116, 97>>
Zeta == <<90, 101, 116, 97>>
GiB == 1073741824

\* what a process's as_dict() may hold: <<cpu_percent, name, username, rest>>,
\* rest being status and memory_info (both present, or both None)
Profiles ==
    {<<None, Some(Sh), Some(Root), TRUE>>,
     <<Some(0), Some(Sh), Some(Root), TRUE>>,
     <<Some(2), Some(Sh), Some(Root), TRUE>>,
     <<Some(1), None, Some(Root), TRUE>>,
     <<Some(1), Some(<< >>), None, FALSE>>}

ProcInfo(pid, f) ==
    [pid |-> pid, name |-> f[2], username |-> f[3],
     status |-> IF f[4] THEN Some(Running) ELSE None,
     cpu_percent |-> f[1],
     memory_info |-> IF f[4] THEN Some([rss |-> GiB + (GiB \div 2)]) ELSE None]

SmallTables ==
    UNION {{[i \in 1..n |-> ProcInfo(i, t[i])] : t \in [1..n -> Profiles]}
           : n \in 0..MaxProcs}

BigTable ==
    [i \in 1..Crowd |-> ProcInfo(i, <<Some(i % 3), Some(Sh), Some(Root), TRUE>>)]

ProcTables == SmallTables \cup {BigTable}

Sessions ==
    {[name |-> Root, host |-> h, terminal |-> t, started |-> 1700000000]
     : h \in {None, Some(<<>>), Some(Host)}, t \in {None, Some(Tty)}}

UserLists == UNION {[1..n -> Sessions] : n \in 0..MaxUsers}

\* a service; readable says whether its as_dict() returns rather than raises
Service(nm, p, r) ==
    [name |-> nm, display_name |-> nm, status |-> Running, pid |-> p,
     readable |-> r]

Services ==
    {Service(nm, p, TRUE) : nm \in {Alpha, AlphaLow, Beta, Zeta}, p \in {None, Some(4)}}
    \cup {Service(Beta, Some(8), FALSE)}

BigServiceList ==
    [i \in 1..SvcCrowd |->
        [name |-> <<(IF i % 2 = 0 THEN 83 ELSE 115)>> \o Digits(100 - i),
         display_name |-> Beta, status |-> Running, pid |-> Some(4 * i),
         readable |-> TRUE]]

\* win_service_iter(): a list, or an exception raised while it is listed
ServiceAnswers ==
    {[error |-> "none", list |-> l]
     : l \in UNION {[1..n -> Services] : n \in 0..MaxSvcs} \cup {BigServiceList}}
    \cup {[error |-> e, list |-> << >>] : e \in {"OSError", "AttributeError"}}

BaseWorld ==
    [platform |-> "Windows",
     cpu |-> 7,
     mem |-> [percent |-> 33, used |-> GiB \div 2, total |-> GiB + (GiB \div 2)],
     disks |-> 1,
     procs |-> <<ProcInfo(1, <<Some(1), Some(Sh), Some(Root), TRUE>>)>>,
     users |-> << >>,
     services |-> [error |-> "none", list |-> << >>]]

\* one facet of the provider varies at a time
Worlds ==
    {[BaseWorld EXCEPT !.procs = t] : t \in ProcTables}
    \cup {[BaseWorld EXCEPT !.users = u] : u \in UserLists}
    \cup {[BaseWorld EXCEPT !.services = s] : s \in ServiceAnswers}
    \cup {[BaseWorld EXCEPT !.disks = n] : n \in 0..MaxDisks}
    \cup {[BaseWorld EXCEPT !.platform = "Linux"]}

\* psutil.process_iter(attrs): the live processes, in pid order
ProcessIter(live) ==
    SelectSeq([i \in 1..Len(world.procs) |-> i], LAMBDA h : h \in live)

\* p.info: the attributes process_iter was asked for
InfoOf(h, attrs) == [k \in attrs |-> world.procs[h][k]]

-----------------------------------------------------------------------------
(* Output. *)

Line(sec, kind, cols) == [sec |-> sec, kind |-> kind, cols |-> cols]
Blank(sec) == Line(sec, "blank", << >>)

Functions == {"get_top_processes", "print_process_details"}

\* main() is at statement p and no exception has ended the run
At(p) == pc = p /\ exc = "none"

\* lines 24-25: the script leaves before main() anywhere but on Windows
Init ==
    /\ world \in Worlds
    /\ alive = 1..Len(world.procs)
    /\ pc = IF world.platform = "Windows" THEN "perf" ELSE "exit"
    /\ exc = IF world.platform = "Windows" THEN "none" ELSE "SystemExit"
    /\ enum = << >>
    /\ idx = 1
    /\ primed = {}
    /\ warmups = [f \in Functions |-> 0]
    /\ procs = << >>
    /\ top = << >>
    /\ rows = << >>
    /\ kept = << >>
    /\ out = << >>

\* print_performance_summary
PrintPerformanceSummary ==
    /\ At("perf")
    /\ out' = out \o
        << Line("perf", "header", << >>),
           Line("perf", "cpu", [cpu |-> world.cpu]),
           Line("perf", "memory",
                [percent |-> world.mem.percent,
                 used |-> FormatGib(world.mem.used),
                 total |-> FormatGib(world.mem.total)]),
           Line("perf", "disks", << >>) >>
        \o [i \in 1..world.disks |-> Line("perf", "disk", [name |-> i])]
        \o << Line("perf", "network", << >>), Blank("perf") >>
    /\ pc' = "summary"
    /\ UNCHANGED <<world, alive, exc, enum, idx, primed, warmups, procs, top,
                   rows, kept>>

-----------------------------------------------------------------------------
(* The sampling pass both process sections make (lines 71-97, 130-160). *)

\* for p in psutil.process_iter([...]) is entered
BeginEnumeration ==
    /\ enum' = ProcessIter(alive)
    /\ idx' = 1

\* one turn of the priming loop: p.cpu_percent(None), a NoSuchProcess passed over
PrimeStep(at) ==
    /\ At(at)
    /\ idx <= Len(enum)
    /\ primed' = IF enum[idx] \in alive THEN primed \cup {enum[idx]} ELSE primed
    /\ idx' = idx + 1
    /\ UNCHANGED <<world, alive, pc, exc, enum, warmups, procs, top, rows, kept,
                   out>>

\* the priming loop is over: psutil.cpu_percent(interval=0.5) is called
WarmupStartEarly(at, next) ==
    /\ At(at)
    /\ pc' = next
    /\ UNCHANGED <<world, alive, exc, enum, idx, primed, warmups, procs, top,
                   rows, kept, out>>

WarmupStart(at, next) ==
    /\ At(at)
    /\ idx > Len(enum)
    /\ pc' = next
    /\ UNCHANGED <<world, alive, exc, enum, idx, primed, warmups, procs, top,
                   rows, kept, out>>

\* the wait returns and the second process_iter loop is entered
WarmupEnd(at, next, f) ==
    /\ At(at)
    /\ warmups' = [warmups EXCEPT ![f] = @ + 1]
    /\ BeginEnumeration
    /\ pc' = next
    /\ UNCHANGED <<world, alive, exc, primed, procs, top, rows, kept, out>>

\* getattr(mem_info, "rss", 0) if mem_info else 0
RssOf(mem_info) == IF mem_info = None THEN 0 ELSE Val(mem_info).rss

\* the dict appended at lines 89-97
TopRow(info) ==
    [pid |-> Get(info, "pid", None),
     name |-> OrText(Get(info, "name", None), << >>),
     username |-> OrText(Get(info, "username", None), << >>),
     cpu_percent |-> Get(info, "cpu_percent", Some(0)),
     memory_rss_gib |-> FormatGib(RssOf(Get(info, "memory_info", None)))]

\* the dict appended at lines 149-160
DetailsRow(info) ==
    [pid |-> Get(info, "pid", None),
     name |-> OrText(Get(info, "name", None), << >>),
     status |-> OrText(Get(info, "status", None), << >>),
     username |-> OrText(Get(info, "username", None), << >>),
     cpu_percent |-> Get(info, "cpu_percent", Some(0)),
     memory_rss_gib |-> FormatGib(RssOf(Get(info, "memory_info", None))),
     description |-> OrText(Get(info, "name", None), << >>)]

\* the rows a read of handle h adds to list: none when p.info raises
\* NoSuchProcess (the process is gone), else the one row made of its info
ReadHandleUncaught(list, h, row) == Append(list, row)

ReadHandle(list, h, row) == IF h \in alive THEN Append(list, row) ELSE list

\* key=lambda x: x["cpu_percent"], reverse=True
CpuBefore(a, b) == Val(a.cpu_percent) > Val(b.cpu_percent)

\* the comparisons procs.sort makes
CpuOrder(list) ==
    [i \in 1..Len(list) |->
        [j \in 1..Len(list) |-> i # j /\ CpuBefore(list[i], list[j])]]

\* list.sort raises TypeError once it compares a None key: with two rows or
\* more every row is compared
SortRaises(list) ==
    Len(list) >= 2 /\ \E i \in 1..Len(list) : list[i].cpu_percent = None

\* procs.sort(key=..., reverse=True); procs[:limit]
RankAll(list, limit) == SortBy(list, CpuOrder(list))

Rank(list, limit) == Take(SortBy(list, CpuOrder(list)), limit)

\* the rows of list an f"{...:5.1f}" prints before one with cpu_percent None
\* raises TypeError
Printable(list) ==
    IF \E i \in 1..Len(list) : list[i].cpu_percent = None
    THEN SubSeq(list, 1,
                (CHOOSE i \in 1..Len(list) :
                    /\ list[i].cpu_percent = None
                    /\ \A j \in 1..(i - 1) : list[j].cpu_percent # None) - 1)
    ELSE list

FormatRaises(list) == \E i \in 1..Len(list) : list[i].cpu_percent = None

-----------------------------------------------------------------------------
(* print_processes_summary(limit=10) and get_top_processes *)

SummaryAttrs == {"pid", "name", "username", "cpu_percent", "memory_info"}
DetailsAttrs == SummaryAttrs \cup {"status"}

\* line 104, and get_top_processes is entered
PrintProcessesSummaryHeader ==
    /\ At("summary")
    /\ out' = Append(out, Line("summary", "header", [limit |-> SummaryLimit]))
    /\ BeginEnumeration
    /\ primed' = {}
    /\ procs' = << >>
    /\ pc' = "top_prime"
    /\ UNCHANGED <<world, alive, exc, warmups, top, rows, kept>>

GetTopPrime == PrimeStep("top_prime")

GetTopWarmupStart == WarmupStart("top_prime", "top_warm")

GetTopWarmupEnd == WarmupEnd("top_warm", "top_read", "get_top_processes")

\* one turn of the loop at lines 80-97
GetTopRead ==
    /\ At("top_read")
    /\ idx <= Len(enum)
    /\ procs' = ReadHandle(procs, enum[idx], TopRow(InfoOf(enum[idx], SummaryAttrs)))
    /\ idx' = idx + 1
    /\ UNCHANGED <<world, alive, pc, exc, enum, primed, warmups, top, rows, kept,
                   out>>

\* lines 99-100, and the return to line 105
GetTopSort ==
    /\ At("top_read")
    /\ idx > Len(enum)
    /\ IF SortRaises(procs)
       THEN exc' = "TypeError" /\ UNCHANGED <<pc, top>>
       ELSE /\ top' = Rank(procs, SummaryLimit)
            /\ pc' = "sum_print"
            /\ UNCHANGED exc
    /\ UNCHANGED <<world, alive, enum, idx, primed, warmups, procs, rows, kept,
                   out>>

SummaryLine(p) ==
    Line("summary", "row",
         [pid |-> p.pid, cpu |-> Val(p.cpu_percent), mem |-> p.memory_rss_gib,
          user |-> p.username, name |-> p.name])

\* what lines 106-119 print for the ranked list
SummaryBody(list) ==
    IF list = << >>
    THEN << Line("summary", "none", << >>), Blank("summary") >>
    ELSE [i \in 1..Len(Printable(list)) |-> SummaryLine(list[i])]
         \o (IF FormatRaises(list) THEN << >> ELSE << Blank("summary") >>)

\* lines 106-119
PrintProcessesSummaryRows ==
    /\ At("sum_print")
    /\ out' = out \o SummaryBody(top)
    /\ IF FormatRaises(top)
       THEN exc' = "TypeError" /\ UNCHANGED pc
       ELSE pc' = "details" /\ UNCHANGED exc
    /\ UNCHANGED <<world, alive, enum, idx, primed, warmups, procs, top, rows,
                   kept>>

-----------------------------------------------------------------------------
(* print_process_details(limit=25) *)

\* the loop at line 130 is entered
PrintProcessDetailsBegin ==
    /\ At("details")
    /\ BeginEnumeration
    /\ primed' = {}
    /\ rows' = << >>
    /\ pc' = "det_prime"
    /\ UNCHANGED <<world, alive, exc, warmups, procs, top, kept, out>>

DetailsPrime == PrimeStep("det_prime")

DetailsWarmupStart == WarmupStart("det_prime", "det_warm")

DetailsWarmupEnd == WarmupEnd("det_warm", "det_read", "print_process_details")

\* one turn of the loop at lines 138-160
DetailsRead ==
    /\ At("det_read")
    /\ idx <= Len(enum)
    /\ rows' = ReadHandle(rows, enum[idx], DetailsRow(InfoOf(enum[idx], DetailsAttrs)))
    /\ idx' = idx + 1
    /\ UNCHANGED <<world, alive, pc, exc, enum, primed, warmups, procs, top, kept,
                   out>>

\* lines 162-163
DetailsSort ==
    /\ At("det_read")
    /\ idx > Len(enum)
    /\ IF SortRaises(rows)
       THEN exc' = "TypeError" /\ UNCHANGED <<pc, kept>>
       ELSE /\ kept' = Rank(rows, DetailsLimit)
            /\ pc' = "det_print"
            /\ UNCHANGED exc
    /\ UNCHANGED <<world, alive, enum, idx, primed, warmups, procs, top, rows,
                   out>>

DetailsLine(r) ==
    Line("details", "row",
         [name |-> Take(r.name, 28), pid |-> r.pid, status |-> Take(r.status, 10),
          user |-> Take(r.username, 16), cpu |-> Val(r.cpu_percent),
          mem |-> r.memory_rss_gib, description |-> Take(r.description, 30)])

\* what lines 165-178 print for the kept rows
DetailsBody(list) ==
    << Line("details", "header", [limit |-> DetailsLimit]),
       Line("details", "columns", << >>),
       Line("details", "rule", << >>) >>
    \o [i \in 1..Len(Printable(list)) |-> DetailsLine(list[i])]
    \o (IF FormatRaises(list) THEN << >> ELSE << Blank("details") >>)

\* lines 165-178
PrintProcessDetailsRows ==
    /\ At("det_print")
    /\ out' = out \o DetailsBody(kept)
    /\ IF FormatRaises(kept)
       THEN exc' = "TypeError" /\ UNCHANGED pc
       ELSE pc' = "users" /\ UNCHANGED exc
    /\ UNCHANGED <<world, alive, enum, idx, primed, warmups, procs, top, rows,
                   kept>>

-----------------------------------------------------------------------------
(* print_users *)

UserLine(u) ==
    Line("users", "row",
         [name |-> u.name, host |-> OrText(u.host, Dash),
          terminal |-> OrText(u.terminal, Dash), started |-> u.started])

\* what lines 186-197 print for psutil.users()
UsersBody(users) ==
    IF users = << >>
    THEN << Line("users", "none", << >>), Blank("users") >>
    ELSE [i \in 1..Len(users) |-> UserLine(users[i])] \o << Blank("users") >>

PrintUsersSkipped ==
    /\ At("users")
    /\ pc' = "services"
    /\ UNCHANGED <<world, alive, exc, enum, idx, primed, warmups, procs, top,
                   rows, kept, out>>

PrintUsers ==
    /\ At("users")
    /\ out' = out \o << Line("users", "header", << >>) >> \o UsersBody(world.users)
    /\ pc' = "services"
    /\ UNCHANGED <<world, alive, exc, enum, idx, primed, warmups, procs, top,
                   rows, kept>>

-----------------------------------------------------------------------------
(* print_services(limit=30) *)

\* key=lambda s: s.name().lower()
NameBeforeCased(a, b) == TextLess(a.name, b.name)

NameBefore(a, b) == TextLess(Lower(a.name), Lower(b.name))

\* the comparisons services.sort makes
NameOrder(list) ==
    [i \in 1..Len(list) |->
        [j \in 1..Len(list) |-> i # j /\ NameBefore(list[i], list[j])]]

\* services.sort(key=...); services[:limit]
ServicesShown(list, limit) == Take(SortBy(list, NameOrder(list)), limit)

\* str(pid) if pid is not None else '-'
PidText(pid) == IF pid # None THEN Digits(Val(pid)) ELSE Dash

\* lines 223-233
ServiceLine(info) ==
    Line("services", "row",
         [name |-> Get(info, "name", << >>),
          pid |-> PidText(Get(info, "pid", None)),
          status |-> Get(info, "status", << >>),
          description |-> Get(info, "display_name", << >>)])

\* the loop at lines 217-233: a service whose as_dict() raises is passed over
ServiceRows(shown) ==
    LET read == SelectSeq(shown, LAMBDA s : s.readable)
    IN  [i \in 1..Len(read) |-> ServiceLine(read[i])]

\* except Exception: every exception but the BaseException-only ones
ExceptNarrow(e) == e = "OSError"
ExceptException(e) == e \notin {"SystemExit", "KeyboardInterrupt", "GeneratorExit"}

\* what lines 208-234 print after the header
ServicesBody(answer) ==
    IF answer.error # "none"
    THEN IF ExceptException(answer.error)
         THEN << Line("services", "error", [message |-> answer.error]),
                 Blank("services") >>
         ELSE << >>
    ELSE ServiceRows(ServicesShown(answer.list, ServicesLimit))
         \o << Blank("services") >>

PrintServices ==
    /\ At("services")
    /\ out' = out \o << Line("services", "header", [limit |-> ServicesLimit]) >>
                  \o ServicesBody(world.services)
    /\ IF world.services.error # "none" /\ ~ExceptException(world.services.error)
       THEN exc' = world.services.error /\ UNCHANGED pc
       ELSE pc' = "done" /\ UNCHANGED exc
    /\ UNCHANGED <<world, alive, enum, idx, primed, warmups, procs, top, rows,
                   kept>>

-----------------------------------------------------------------------------
(* The environment: a process exits while a sampling pass is under way. *)

PassPcs == {"top_prime", "top_warm", "top_read", "det_prime", "det_warm", "det_read"}

Vanish(h) ==
    /\ exc = "none"
    /\ pc \in PassPcs
    /\ h \in alive
    /\ Len(world.procs) - Cardinality(alive) < MaxGone
    /\ alive' = alive \ {h}
    /\ UNCHANGED <<world, pc, exc, enum, idx, primed, warmups, procs, top, rows,
                   kept, out>>

\* main(), lines 239-244, with the environment's steps
Next ==
    \/ PrintPerformanceSummary
    \/ PrintProcessesSummaryHeader
    \/ GetTopPrime
    \/ GetTopWarmupStart
    \/ GetTopWarmupEnd
    \/ GetTopRead
    \/ GetTopSort
    \/ PrintProcessesSummaryRows
    \/ PrintProcessDetailsBegin
    \/ DetailsPrime
    \/ DetailsWarmupStart
    \/ DetailsWarmupEnd
    \/ DetailsRead
    \/ DetailsSort
    \/ PrintProcessDetailsRows
    \/ PrintUsers
    \/ PrintServices
    \/ \E h \in 1..MaxProcs : Vanish(h)

Spec == Init /\ [][Next]_vars

-----------------------------------------------------------------------------
(* What the claims speak of. *)

Sections == <<"perf", "summary", "details", "users", "services">>
SecNo(sec) == CHOOSE i \in 1..Len(Sections) : Sections[i] = sec
SecLines(sec) == SelectSeq(out, LAMBDA l : l.sec = sec)
RowLines(sec) == SelectSeq(out, LAMBDA l : l.sec = sec /\ l.kind = "row")
Kinds(lines) == [i \in 1..Len(lines) |-> lines[i].kind]
Readable(list) == SelectSeq(list, LAMBDA s : s.readable)
Cpu(r) == Val(r.cpu_percent)
Count(list, r) == Cardinality({i \in 1..Len(list) : list[i] = r})

\* where main() is once get_top_processes has sorted, once the summary has
\* printed, once the details rows are sorted, once the details have printed
AfterTopSort == {"sum_print", "details", "det_prime", "det_warm", "det_read",
                 "det_print", "users", "services", "done"}
AfterSummary == AfterTopSort \ {"sum_print"}
AfterDetailsSort == {"det_print", "users", "services", "done"}
AfterDetails == {"users", "services", "done"}

(* C1: the output of a run is the sections' output in the order Performance, *)
(* Processes summary, Process details, Users, Services: a line of a later    *)
(* section never precedes a line of an earlier one, a section starts with    *)
(* its header, a section has printed its closing blank line before the next  *)
(* prints, and a run that ends without an exception has printed all five.    *)
C1_SectionOrder ==
    /\ \A i, j \in 1..Len(out) :
            i < j => SecNo(out[i].sec) <= SecNo(out[j].sec)
    /\ \A k \in 1..Len(Sections) :
            SecLines(Sections[k]) # << >> =>
                /\ SecLines(Sections[k])[1].kind = "header"
                /\ \A m \in 1..(k - 1) :
                    LET before == SecLines(Sections[m])
                    IN  before # << >> /\ before[Len(before)].kind = "blank"
    /\ (pc = "done" /\ exc = "none") =>
            \A k \in 1..Len(Sections) : SecLines(Sections[k]) # << >>

C1_Witness ==
    /\ pc = "done"
    /\ exc = "none"
    /\ RowLines("summary") # << >>
    /\ RowLines("details") # << >>

\* ranked is the first min(N, len) rows of sampled in non-increasing cpu order
RankedOK(sampled, ranked, N) ==
    /\ Len(ranked) = Min(N, Len(sampled))
    /\ \A i, j \in 1..Len(ranked) : i < j => Cpu(ranked[i]) >= Cpu(ranked[j])
    /\ \A i \in 1..Len(ranked) :
            Count(ranked, ranked[i]) <= Count(sampled, ranked[i])
    /\ \A i \in 1..Len(sampled) :
            Count(ranked, sampled[i]) < Count(sampled, sampled[i]) =>
                \A k \in 1..Len(ranked) : Cpu(ranked[k]) >= Cpu(sampled[i])

(* C2: for every list of sampled rows the ranking yields a result (the sort  *)
(* does not fail), of length min(limit, rows sampled), in non-increasing     *)
(* cpu_percent order, a sub-multiset of the sampled rows, no dropped row     *)
(* having a greater cpu_percent than a kept one.                             *)
C2_RankedResult ==
    /\ pc \in {"top_read", "det_read"} => exc = "none"
    /\ pc \in AfterTopSort => RankedOK(procs, top, SummaryLimit)
    /\ pc \in AfterDetailsSort => RankedOK(rows, kept, DetailsLimit)

\* the rows the pass in progress has collected
PassRows == IF pc \in {"top_prime", "top_warm", "top_read"} THEN procs ELSE rows

C3_PassState ==
    /\ pc \in {"top_prime", "top_warm", "det_prime", "det_warm"} => exc = "none"
    /\ (pc \in {"top_read", "det_read"} /\ exc # "none") => idx > Len(enum)
    /\ pc \in {"top_read", "det_read"} =>
        /\ \A i, j \in 1..Len(PassRows) :
                i < j => PassRows[i].pid # PassRows[j].pid
        /\ \A i \in 1..Len(PassRows) :
                \E k \in 1..(idx - 1) : world.procs[enum[k]].pid = PassRows[i].pid
        /\ \A k \in 1..(idx - 1) :
                enum[k] \in alive =>
                    \E i \in 1..Len(PassRows) :
                        PassRows[i].pid = world.procs[enum[k]].pid

C3_PassStep ==
    (pc \in {"top_prime", "det_prime", "top_read", "det_read"} /\ idx' = idx + 1) =>
        /\ exc' = "none"
        /\ pc' = pc
        /\ enum[idx] \notin alive => (procs' = procs /\ rows' = rows)
        /\ (enum[idx] \in alive /\ pc \in {"top_read", "det_read"}) =>
                /\ Len(PassRows') = Len(PassRows) + 1
                /\ PassRows'[Len(PassRows')].pid = world.procs[enum[idx]].pid

(* C3: a process that vanishes during a sampling pass never aborts it: no    *)
(* exception ends the run before the second loop is over, a turn of either   *)
(* loop on a vanished process raises nothing and adds no row, a turn of the  *)
(* second loop on a live process adds exactly its one row, and the rows      *)
(* collected are, once each, those of handles that were read, every handle   *)
(* still alive among them.                                                   *)
C3_VanishNeverAborts == []C3_PassState /\ [][C3_PassStep]_vars

C3_Witness ==
    /\ pc = "top_read"
    /\ idx > Len(enum)
    /\ Len(procs) >= 1
    /\ \E k \in 1..Len(enum) :
            /\ enum[k] \notin alive
            /\ \A i \in 1..Len(procs) : procs[i].pid # world.procs[enum[k]].pid

(* C4: when the service enumeration raises, print_services catches it: once  *)
(* the section has printed anything the run is at its end with no exception, *)
(* and the section's output is the header, one diagnostic line and the blank *)
(* line that closes it, with no service row.                                 *)
C4_ServicesFailureCaught ==
    (world.services.error # "none" /\ SecLines("services") # << >>) =>
        /\ pc = "done"
        /\ exc = "none"
        /\ Kinds(SecLines("services")) = <<"header", "error", "blank">>

C4_Witness ==
    /\ pc = "done"
    /\ world.services.error = "AttributeError"
    /\ Len(SecLines("services")) = 3

(* C5, as claimed: every section renders as many rows as it sampled.         *)
C5_ShowAll ==
    /\ pc \in AfterSummary => Len(RowLines("summary")) = Len(procs)
    /\ pc \in AfterDetails => Len(RowLines("details")) = Len(rows)
    /\ (pc = "done" /\ world.services.error = "none") =>
            Len(RowLines("services")) = Len(Readable(world.services.list))

(* C5, amended: main runs the sections in top-N mode.  The summary and the   *)
(* details never render more than min(limit, rows sampled) rows, limit being *)
(* 10 and 25, and exactly that many once the section is over; the services   *)
(* section renders at most min(30, services listed) rows, short of that only *)
(* by services that cannot be read.                                          *)
C5_TopN ==
    /\ Len(RowLines("summary")) <= Min(SummaryLimit, Len(procs))
    /\ Len(RowLines("details")) <= Min(DetailsLimit, Len(rows))
    /\ pc \in AfterSummary =>
            Len(RowLines("summary")) = Min(SummaryLimit, Len(procs))
    /\ pc \in AfterDetails =>
            Len(RowLines("details")) = Min(DetailsLimit, Len(rows))
    /\ (pc = "done" /\ world.services.error = "none") =>
            LET n == Len(world.services.list)
                unread == n - Len(Readable(world.services.list))
                r == Len(RowLines("services"))
            IN  /\ r <= Min(ServicesLimit, n)
                /\ r <= n - unread
                /\ r >= Min(ServicesLimit, n) - unread

C5_Witness ==
    /\ pc \in AfterDetails
    /\ Len(procs) > SummaryLimit
    /\ Len(RowLines("summary")) = SummaryLimit
    /\ Len(rows) > DetailsLimit
    /\ Len(RowLines("details")) = DetailsLimit

\* a section's output for an empty list: the header, then one "no data" line
\* and no row
NoDataOutput(sec) ==
    LET k == Kinds(SecLines(sec))
    IN  /\ Len(k) >= 2
        /\ k[1] = "header"
        /\ k[2] = "none"
        /\ \A i \in 3..Len(k) : k[i] = "blank"

(* C6: a section whose list is empty prints its header and then exactly one  *)
(* "no data" line in place of a table body.                                  *)
C6_EmptyShowsNoData ==
    /\ (pc \in AfterSummary /\ top = << >>) => NoDataOutput("summary")
    /\ (pc \in AfterDetails /\ kept = << >>) => NoDataOutput("details")
    /\ (pc \in {"services", "done"} /\ world.users = << >>) => NoDataOutput("users")
    /\ (pc = "done" /\ world.services.error = "none"
            /\ world.services.list = << >>) => NoDataOutput("services")

(* C7: the service rows are printed in ascending order of the lower-cased    *)
(* name: no printed row's lower-cased name is less than that of a row        *)
(* printed before it.                                                        *)
C7_ServicesSorted ==
    LET r == RowLines("services")
    IN  \A i, j \in 1..Len(r) :
            i < j => ~TextLess(Lower(r[j].cols.name), Lower(r[i].cols.name))

C7_Witness ==
    /\ pc = "done"
    /\ Len(world.services.list) = 2
    /\ world.services.list[1].name = Zeta
    /\ world.services.list[2].name = Beta
    /\ Len(RowLines("services")) = 2
    /\ RowLines("services")[1].cols.name = Beta

(* C8: every row a sampling pass has collected carries a number >= 0 as its  *)
(* cpu_percent.                                                              *)
C8_CpuNumeric ==
    /\ \A i \in 1..Len(procs) :
            procs[i].cpu_percent # None /\ Cpu(procs[i]) >= 0
    /\ \A i \in 1..Len(rows) :
            rows[i].cpu_percent # None /\ Cpu(rows[i]) >= 0

Absent == {NoneText, << >>}

(* C9: no printed field shows None or, for a session or a service, an empty  *)
(* gap: an absent host or terminal prints as "-", an absent service pid as   *)
(* "-" (never as 0), an absent process name, user or status as the empty     *)
(* string.                                                                   *)
C9_NoAbsenceMarker ==
    /\ LET r == RowLines("users")
       IN  \A i \in 1..Len(r) :
            /\ r[i].cols.host \notin Absent
            /\ r[i].cols.terminal \notin Absent
            /\ world.users[i].host = None => r[i].cols.host = Dash
            /\ world.users[i].terminal = None => r[i].cols.terminal = Dash
    /\ LET r == RowLines("services")
       IN  \A i \in 1..Len(r) :
            /\ r[i].cols.pid \notin Absent \cup {Digits(0)}
            /\ (\A k \in 1..Len(world.services.list) :
                    world.services.list[k].pid = None) => r[i].cols.pid = Dash
    /\ LET r == RowLines("summary") \o RowLines("details")
       IN  \A i \in 1..Len(r) :
            LET info == world.procs[r[i].cols.pid]
            IN  /\ r[i].cols.name # NoneText
                /\ r[i].cols.user # NoneText
                /\ info.name = None => r[i].cols.name = << >>
                /\ info.username = None => r[i].cols.user = << >>
    /\ LET r == RowLines("details")
       IN  \A i \in 1..Len(r) :
            LET info == world.procs[r[i].cols.pid]
            IN  /\ r[i].cols.status # NoneText
                /\ r[i].cols.description # NoneText
                /\ info.status = None => r[i].cols.status = << >>
                /\ info.name = None => r[i].cols.description = << >>

C9_Witness ==
    /\ pc = "done"
    /\ \E i \in 1..Len(world.users) :
            /\ world.users[i].host = None
            /\ world.users[i].terminal = None
            /\ RowLines("users")[i].cols.host = Dash
            /\ RowLines("users")[i].cols.terminal = Dash

C10_PassState ==
    /\ warmups["get_top_processes"] =
            (IF pc \in {"top_read"} \cup AfterTopSort THEN 1 ELSE 0)
    /\ warmups["print_process_details"] =
            (IF pc \in {"det_read"} \cup AfterDetailsSort THEN 1 ELSE 0)
    /\ pc \in {"top_warm", "det_warm"} => idx > Len(enum)
    /\ pc \in {"top_prime", "top_warm"} => procs = << >>
    /\ pc \in {"det_prime", "det_warm"} => rows = << >>

C10_PassStep ==
    /\ (primed' # primed /\ primed' # {}) =>
            pc \in {"top_prime", "det_prime"} /\ pc' = pc
    /\ Len(procs') > Len(procs) =>
            pc = "top_read" /\ warmups["get_top_processes"] = 1
    /\ Len(rows') > Len(rows) =>
            pc = "det_read" /\ warmups["print_process_details"] = 1
    /\ (pc = "top_read" /\ (pc' # pc \/ exc' # exc \/ top' # top)) =>
            idx > Len(enum)
    /\ (pc = "det_read" /\ (pc' # pc \/ exc' # exc \/ kept' # kept)) =>
            idx > Len(enum)

(* C10: each of the two process sections makes exactly one sampling pass of  *)
(* its own (one warm-up wait each, none before its priming loop is over),    *)
(* cpu_percent(None) is called only in the priming loop, a row is read only  *)
(* after the section's warm-up wait has returned, and the sort happens only  *)
(* when the second loop is over.                                             *)
C10_PassOrder == []C10_PassState /\ [][C10_PassStep]_vars

C10_Witness ==
    /\ pc = "users"
    /\ Len(procs) >= 2
    /\ Len(rows) >= 2
    /\ warmups["get_top_processes"] = 1
    /\ warmups["print_process_details"] = 1

====
